---- MODULE Spec2Model ----
(***************************************************************************)
(* ste::Timer (include/timer.hpp): a thread-based timer that calls a       *)
(* user-supplied function once (single shot) or repeatedly, on a detached  *)
(* background thread spawned by start().                                   *)
(*                                                                         *)
(* One caller thread drives the public interface; every start() that finds *)
(* the Timer stopped spawns one detached thread running the lambda of      *)
(* on_run().  The lambdas capture `this`, so every thread works on the     *)
(* Timer's own fields.  Each access to a field is one atomic step; the     *)
(* steps of the caller and of the threads interleave freely, because the   *)
(* code holds no lock and no atomic.  A callback is opaque user code that  *)
(* returns and does not itself call into the Timer.                        *)
(***************************************************************************)
EXTENDS Naturals, Sequences, FiniteSets

(* Bounds of the model. *)
MaxOps == 3      \* calls the caller makes in one behaviour
MaxCalls == 2    \* the invocation counters saturate here
MaxDelay == 1    \* delays are 0 .. MaxDelay milliseconds
MaxLifetimeOps == 2   \* calls the caller makes on a Timer it then destroys

Callbacks == {"A", "B"}
Delays == 0 .. MaxDelay
Threads == 1 .. MaxOps   \* thread i is the one spawned by the i-th spawning start()

VARIABLES
    stopped,         \* bool _stopped
    is_single_shot,  \* bool _is_single_shot
    ms_delay,        \* std::chrono::milliseconds _ms_delay
    function,        \* Function _function
    args,            \* the constructor's arguments (history)
    callerPc,        \* where the caller thread is
    callerArg,       \* the value the caller is about to assign
    pc,              \* pc[t]: where background thread t is
    kind,            \* kind[t]: which lambda of on_run() thread t runs
    cur,             \* cur[t]: the callback thread t is invoking
    dur,             \* dur[t]: the delay of thread t's latest sleep_for
    ops,             \* the caller's completed calls, in order (history)
    calls,           \* callback invocations begun, saturating (history)
    invoked,         \* invoked[t]: invocations thread t began (history)
    sinceStop,       \* sinceStop[t]: those begun since the latest stop() (history)
    sleptAfterStop,  \* sleptAfterStop[t]: t's latest sleep began after the latest stop() (history)
    sinceFlip,       \* sinceFlip[t]: invocations begun since the latest switch to single shot (history)
    natural,         \* a thread assigned _stopped = true since start() last cleared it (history)
    stale,           \* stale[t]: the callback was replaced while t's invocation was in flight (history)
    stopInSleep,     \* stopInSleep[t]: stop() ran while t was in its latest sleep_for (history)
    sinceStart,      \* an invocation began since start() last found the Timer stopped (history)
    uaf              \* uaf[t]: t used the Timer after it was destroyed (history)

fields == <<stopped, is_single_shot, ms_delay, function>>
caller == <<callerPc, callerArg>>
threads == <<pc, kind, cur, dur>>
history == <<ops, calls, invoked, sinceStop, sleptAfterStop, sinceFlip, natural, stale,
             stopInSleep, sinceStart, uaf>>
vars == <<stopped, is_single_shot, ms_delay, function, args, callerPc, callerArg,
          pc, kind, cur, dur, ops, calls, invoked, sinceStop, sleptAfterStop, sinceFlip,
          natural, stale, stopInSleep, sinceStart, uaf>>

NoArg == "-"
NoCallback == "-"

Inc(n) == IF n < MaxCalls THEN n + 1 ELSE n

(* bool running() const {return !stopped();}   bool stopped() const{return _stopped;} *)
stopped_ == stopped
running == ~stopped_

Active(t) == pc[t] \notin {"none", "done"}
ActiveThreads == {t \in Threads : Active(t)}
Spawned == {t \in Threads : pc[t] # "none"}

(* One entry of ops: the call, its argument, _stopped as the call found it, *)
(* the thread it spawned (0: none) and `natural` as the call found it.     *)
OpRecord(op, arg, pre, spawned, nat) ==
    [op |-> op, arg |-> arg, pre |-> pre, spawned |-> spawned, nat |-> nat]

(***************************************************************************)
(* Constructor.                                                            *)
(***************************************************************************)
TimerRunning(fn, delay, single_shot) ==
    [stopped |-> FALSE, is_single_shot |-> single_shot, ms_delay |-> delay, function |-> fn]

Timer(fn, delay, single_shot) ==
    [stopped |-> TRUE, is_single_shot |-> single_shot, ms_delay |-> delay, function |-> fn]

Init ==
    \E fn \in Callbacks, delay \in Delays, single_shot \in BOOLEAN :
        /\ args = [function |-> fn, delay |-> delay, single_shot |-> single_shot]
        /\ stopped = Timer(fn, delay, single_shot).stopped
        /\ is_single_shot = Timer(fn, delay, single_shot).is_single_shot
        /\ ms_delay = Timer(fn, delay, single_shot).ms_delay
        /\ function = Timer(fn, delay, single_shot).function
        /\ callerPc = "idle"
        /\ callerArg = NoArg
        /\ pc = [t \in Threads |-> "none"]
        /\ kind = [t \in Threads |-> "none"]
        /\ cur = [t \in Threads |-> NoCallback]
        /\ dur = [t \in Threads |-> 0]
        /\ ops = << >>
        /\ calls = 0
        /\ invoked = [t \in Threads |-> 0]
        /\ sinceStop = [t \in Threads |-> 0]
        /\ sleptAfterStop = [t \in Threads |-> FALSE]
        /\ sinceFlip = [t \in Threads |-> 0]
        /\ natural = FALSE
        /\ stale = [t \in Threads |-> FALSE]
        /\ stopInSleep = [t \in Threads |-> FALSE]
        /\ sinceStart = FALSE
        /\ uaf = [t \in Threads |-> FALSE]

(***************************************************************************)
(* The caller thread.                                                      *)
(***************************************************************************)
ModeArg(b) == IF b THEN "single" ELSE "repeating"

(* The caller enters one of the public member functions. *)
Call ==
    /\ callerPc = "idle"
    /\ Len(ops) < MaxOps
    /\ \/ callerPc' = "start" /\ callerArg' = NoArg
       \/ callerPc' = "stop" /\ callerArg' = NoArg
       \/ \E b \in BOOLEAN : callerPc' = "is_single_shot" /\ callerArg' = ModeArg(b)
       \/ \E f \in Callbacks : callerPc' = "function" /\ callerArg' = f
    /\ UNCHANGED <<fields, args, threads, history>>

(* A start() that does not look at the flag. *)
StartFindsAlways == TRUE

(* start(): if(_stopped)   the test *)
StartFinds == stopped

(* start(): if(_stopped){ ... } return *this; *)
StartCheck ==
    /\ callerPc = "start"
    /\ callerPc' = IF StartFinds THEN "start_set" ELSE "idle"
    /\ ops' = Append(ops, OpRecord("start", NoArg, StartFinds, 0, natural))
    /\ sinceStart' = (sinceStart /\ ~StartFinds)
    /\ UNCHANGED <<fields, args, callerArg, threads, calls, invoked, sinceStop,
                   sleptAfterStop, sinceFlip, natural, stale, stopInSleep, uaf>>

(* start(): _stopped = false; *)
StartSet ==
    /\ callerPc = "start_set"
    /\ stopped' = FALSE
    /\ callerPc' = "on_run"
    /\ natural' = FALSE
    /\ UNCHANGED <<is_single_shot, ms_delay, function, args, callerArg, threads, ops,
                   calls, invoked, sinceStop, sleptAfterStop, sinceFlip, stale,
                   stopInSleep, sinceStart, uaf>>

(* on_run(): if(_is_single_shot){ std::thread t(...); } else{ std::thread t(...); } *)
SpawnKind == IF is_single_shot THEN "single" ELSE "repeating"
(* Lambdas that invoke the callback first and sleep afterwards. *)
SpawnPcFireFirst == "invoke"

SpawnPc == IF is_single_shot THEN "check1" ELSE "while"
NextThread == Cardinality(Spawned) + 1

(* on_run(): the thread is spawned and detached; then start() returns. *)
on_run ==
    /\ callerPc = "on_run"
    /\ pc' = [pc EXCEPT ![NextThread] = SpawnPc]
    /\ kind' = [kind EXCEPT ![NextThread] = SpawnKind]
    /\ callerPc' = "idle"
    /\ ops' = [ops EXCEPT ![Len(ops)].spawned = NextThread]
    /\ UNCHANGED <<fields, args, callerArg, cur, dur, calls, invoked, sinceStop,
                   sleptAfterStop, sinceFlip, natural, stale, stopInSleep, sinceStart, uaf>>

(* A stop() that toggles the flag. *)
StopToggle == ~stopped

(* stop(): the value assigned to _stopped *)
StopValue == TRUE

(* stop(): _stopped = true; return *this; *)
stop ==
    /\ callerPc = "stop"
    /\ stopped' = StopValue
    /\ callerPc' = "idle"
    /\ ops' = Append(ops, OpRecord("stop", NoArg, stopped, 0, natural))
    /\ sinceStop' = [t \in Threads |-> 0]
    /\ sleptAfterStop' = [t \in Threads |-> FALSE]
    /\ stopInSleep' = [t \in Threads |-> stopInSleep[t] \/ pc[t] = "sleeping"]
    /\ UNCHANGED <<is_single_shot, ms_delay, function, args, callerArg, threads,
                   calls, invoked, sinceFlip, natural, stale, sinceStart, uaf>>

(* t.is_single_shot() = b;   through bool& is_single_shot() *)
set_is_single_shot ==
    /\ callerPc = "is_single_shot"
    /\ is_single_shot' = (callerArg = "single")
    /\ callerPc' = "idle"
    /\ callerArg' = NoArg
    /\ ops' = Append(ops, OpRecord("is_single_shot", callerArg, stopped, 0, natural))
    /\ sinceFlip' = IF callerArg = "single" THEN [t \in Threads |-> 0] ELSE sinceFlip
    /\ UNCHANGED <<stopped, ms_delay, function, args, threads, calls, invoked,
                   sinceStop, sleptAfterStop, natural, stale, stopInSleep, sinceStart, uaf>>

(* t.function() = f;   through Function& function() *)
set_function ==
    /\ callerPc = "function"
    /\ function' = callerArg
    /\ callerPc' = "idle"
    /\ callerArg' = NoArg
    /\ ops' = Append(ops, OpRecord("function", callerArg, stopped, 0, natural))
    /\ stale' = [t \in Threads |-> stale[t] \/ pc[t] = "in_function"]
    /\ UNCHANGED <<stopped, is_single_shot, ms_delay, args, threads, calls, invoked,
                   sinceStop, sleptAfterStop, sinceFlip, natural, stopInSleep, sinceStart, uaf>>

(***************************************************************************)
(* The background threads: the two lambdas of on_run().                    *)
(***************************************************************************)
(* Fields guarded by a lock the caller holds while it is in a member function. *)
MayAccessLocked(t) == callerPc = "idle"

(* The fields carry no lock and are not atomic: a thread's access to one   *)
(* never waits for the caller.                                             *)
MayAccess(t) == TRUE

(* Lambdas that captured the fields by value when the thread was spawned. *)
StoppedSeenCopy(t) == FALSE
ModeSeenCopy(t) == kind[t] = "single"
FunctionSeenCopy(t) == args.function

(* The flag as a thread's checks see it: the lambdas capture this. *)
StoppedSeen(t) == stopped

(* The mode as the repeating loop's test sees it. *)
ModeSeen(t) == is_single_shot

(* The callback a thread invokes: _function through the captured this. *)
FunctionSeen(t) == function

(* while(!_is_single_shot)   (repeating lambda) *)
While(t) ==
    /\ pc[t] = "while"
    /\ MayAccess(t)
    /\ pc' = [pc EXCEPT ![t] = IF ~ModeSeen(t) THEN "check1" ELSE "set_stopped"]
    /\ UNCHANGED <<fields, args, caller, kind, cur, dur, history>>

(* if(_stopped){return;}   before the sleep *)
Check1(t) ==
    /\ pc[t] = "check1"
    /\ MayAccess(t)
    /\ pc' = [pc EXCEPT ![t] = IF StoppedSeen(t) THEN "done" ELSE "sleep"]
    /\ UNCHANGED <<fields, args, caller, kind, cur, dur, history>>

(* std::this_thread::sleep_for(_ms_delay);   the call *)
Sleep(t) ==
    /\ pc[t] = "sleep"
    /\ pc' = [pc EXCEPT ![t] = "sleeping"]
    /\ dur' = [dur EXCEPT ![t] = ms_delay]
    /\ sleptAfterStop' = [sleptAfterStop EXCEPT ![t] = TRUE]
    /\ stopInSleep' = [stopInSleep EXCEPT ![t] = FALSE]
    /\ UNCHANGED <<fields, args, caller, kind, cur, ops, calls, invoked, sinceStop,
                   sinceFlip, natural, stale, sinceStart, uaf>>

(* std::this_thread::sleep_for(_ms_delay);   the return *)
Wake(t) ==
    /\ pc[t] = "sleeping"
    /\ pc' = [pc EXCEPT ![t] = "check2"]
    /\ UNCHANGED <<fields, args, caller, kind, cur, dur, history>>

(* if(_stopped){return;}   after the sleep *)
Check2(t) ==
    /\ pc[t] = "check2"
    /\ MayAccess(t)
    /\ pc' = [pc EXCEPT ![t] = IF StoppedSeen(t) THEN "done" ELSE "invoke"]
    /\ UNCHANGED <<fields, args, caller, kind, cur, dur, history>>

(* _function();   the call *)
Invoke(t) ==
    /\ pc[t] = "invoke"
    /\ MayAccess(t)
    /\ pc' = [pc EXCEPT ![t] = "in_function"]
    /\ cur' = [cur EXCEPT ![t] = FunctionSeen(t)]
    /\ calls' = Inc(calls)
    /\ invoked' = [invoked EXCEPT ![t] = Inc(@)]
    /\ sinceStop' = [sinceStop EXCEPT ![t] = Inc(@)]
    /\ sinceFlip' = [sinceFlip EXCEPT ![t] = Inc(@)]
    /\ stale' = [stale EXCEPT ![t] = FALSE]
    /\ sinceStart' = TRUE
    /\ UNCHANGED <<fields, args, caller, kind, dur, ops, sleptAfterStop, natural,
                   stopInSleep, uaf>>

(* A repeating lambda without its loop. *)
AfterFunctionOnce(t) == "set_stopped"

(* A single-shot lambda that returns without _stopped = true. *)
AfterFunctionNoStop(t) == IF kind[t] = "single" THEN "done" ELSE "while"

(* A single-shot lambda that also has the loop and its test of the mode. *)
AfterFunctionLoops(t) == "while"

(* A single-shot lambda that starts its tick again after the invocation. *)
AfterFunctionAgain(t) == IF kind[t] = "single" THEN "check1" ELSE "while"

(* What follows _function(): _stopped = true (single shot) or the loop's test. *)
AfterFunction(t) == IF kind[t] = "single" THEN "set_stopped" ELSE "while"

(* _function();   the return *)
Return(t) ==
    /\ pc[t] = "in_function"
    /\ pc' = [pc EXCEPT ![t] = AfterFunction(t)]
    /\ cur' = [cur EXCEPT ![t] = NoCallback]
    /\ stale' = [stale EXCEPT ![t] = FALSE]
    /\ UNCHANGED <<fields, args, caller, kind, dur, ops, calls, invoked, sinceStop,
                   sleptAfterStop, sinceFlip, natural, stopInSleep, sinceStart, uaf>>

(* _stopped = true; return;   the end of either lambda *)
SetStopped(t) ==
    /\ pc[t] = "set_stopped"
    /\ MayAccess(t)
    /\ stopped' = TRUE
    /\ pc' = [pc EXCEPT ![t] = "done"]
    /\ natural' = TRUE
    /\ UNCHANGED <<is_single_shot, ms_delay, function, args, caller, kind, cur, dur,
                   ops, calls, invoked, sinceStop, sleptAfterStop, sinceFlip, stale,
                   stopInSleep, sinceStart, uaf>>

ThreadStep(t) ==
    \/ While(t)
    \/ Check1(t)
    \/ Sleep(t)
    \/ Wake(t)
    \/ Check2(t)
    \/ Invoke(t)
    \/ Return(t)
    \/ SetStopped(t)

CallerStep ==
    \/ StartCheck
    \/ StartSet
    \/ on_run
    \/ stop
    \/ set_is_single_shot
    \/ set_function

Next ==
    \/ Call
    \/ CallerStep
    \/ \E t \in Threads : ThreadStep(t)

Spec == Init /\ [][Next]_vars

(* The scheduler runs every thread that can take a step, and a call the    *)
(* caller has entered runs to its return; the caller need not call again.  *)
FairSpec ==
    /\ Spec
    /\ WF_vars(CallerStep)
    /\ \A t \in Threads : WF_vars(ThreadStep(t))

(***************************************************************************)
(* Destruction.  Timer declares no destructor: the implicit one destroys   *)
(* the members and returns.  The lambdas hold only the this pointer, so a  *)
(* thread that runs on reads and writes a destroyed object: what it reads  *)
(* is any value, and the access may fault.                                 *)
(***************************************************************************)
Destroyed == callerPc = "destroyed"

(* A Timer that keeps its threads joinable and joins them when destroyed. *)
DestructorJoins(t) == TRUE

(* t.detach(): the Timer keeps no handle, so its destruction waits for no thread. *)
DestructorWaitsFor(t) == FALSE

(* The Timer goes out of scope in the caller. *)
destroy ==
    /\ callerPc = "idle"
    /\ \A t \in ActiveThreads : ~DestructorWaitsFor(t)
    /\ callerPc' = "destroyed"
    /\ UNCHANGED <<fields, args, callerArg, threads, history>>

AccessPcs == {"while", "check1", "sleep", "check2", "invoke", "set_stopped"}

(* A step of a lambda that touches a field, taken after the destruction. *)
UseAfterFree(t) ==
    /\ Destroyed
    /\ uaf' = [uaf EXCEPT ![t] = TRUE]
    /\ \/ /\ pc[t] = "while"
          /\ \E single \in BOOLEAN :
                pc' = [pc EXCEPT ![t] = IF ~single THEN "check1" ELSE "set_stopped"]
          /\ UNCHANGED <<fields, cur, dur, calls, invoked, sinceStop, sinceFlip,
                         sleptAfterStop, stopInSleep, sinceStart, stale>>
       \/ /\ pc[t] = "check1"
          /\ \E flag \in BOOLEAN : pc' = [pc EXCEPT ![t] = IF flag THEN "done" ELSE "sleep"]
          /\ UNCHANGED <<fields, cur, dur, calls, invoked, sinceStop, sinceFlip,
                         sleptAfterStop, stopInSleep, sinceStart, stale>>
       \/ /\ pc[t] = "sleep"
          /\ pc' = [pc EXCEPT ![t] = "sleeping"]
          /\ \E delay \in Delays : dur' = [dur EXCEPT ![t] = delay]
          /\ sleptAfterStop' = [sleptAfterStop EXCEPT ![t] = TRUE]
          /\ stopInSleep' = [stopInSleep EXCEPT ![t] = FALSE]
          /\ UNCHANGED <<fields, cur, calls, invoked, sinceStop, sinceFlip, sinceStart, stale>>
       \/ /\ pc[t] = "check2"
          /\ \E flag \in BOOLEAN : pc' = [pc EXCEPT ![t] = IF flag THEN "done" ELSE "invoke"]
          /\ UNCHANGED <<fields, cur, dur, calls, invoked, sinceStop, sinceFlip,
                         sleptAfterStop, stopInSleep, sinceStart, stale>>
       \/ /\ pc[t] = "invoke"
          /\ pc' = [pc EXCEPT ![t] = "in_function"]
          /\ \E f \in Callbacks : cur' = [cur EXCEPT ![t] = f]
          /\ calls' = Inc(calls)
          /\ invoked' = [invoked EXCEPT ![t] = Inc(@)]
          /\ sinceStop' = [sinceStop EXCEPT ![t] = Inc(@)]
          /\ sinceFlip' = [sinceFlip EXCEPT ![t] = Inc(@)]
          /\ stale' = [stale EXCEPT ![t] = FALSE]
          /\ sinceStart' = TRUE
          /\ UNCHANGED <<fields, dur, sleptAfterStop, stopInSleep>>
       \/ /\ pc[t] = "set_stopped"
          /\ stopped' = TRUE
          /\ pc' = [pc EXCEPT ![t] = "done"]
          /\ UNCHANGED <<is_single_shot, ms_delay, function, cur, dur, calls, invoked,
                         sinceStop, sinceFlip, sleptAfterStop, stopInSleep, sinceStart, stale>>
       \/ /\ pc[t] \in AccessPcs
          /\ pc' = [pc EXCEPT ![t] = "crashed"]
          /\ UNCHANGED <<fields, cur, dur, calls, invoked, sinceStop, sinceFlip,
                         sleptAfterStop, stopInSleep, sinceStart, stale>>
    /\ UNCHANGED <<args, caller, kind, ops, natural>>

(* The steps of a lambda that touch no field go on as before. *)
LocalStep(t) ==
    /\ Destroyed
    /\ (Wake(t) \/ Return(t))

LifetimeNext ==
    \/ Len(ops) < MaxLifetimeOps /\ Call
    \/ CallerStep
    \/ \E t \in Threads : ~Destroyed /\ ThreadStep(t)
    \/ destroy
    \/ \E t \in Threads : LocalStep(t)
    \/ \E t \in Threads : UseAfterFree(t)

LifetimeSpec == Init /\ [][LifetimeNext]_vars

(***************************************************************************)
(* Properties.                                                             *)
(***************************************************************************)
NOps == Len(ops)
IsOp(i, op) == i \in 1 .. NOps /\ ops[i].op = op
InStart == callerPc \in {"start", "start_set", "on_run"}

(* C1: at most one background execution loop of the Timer is active        *)
(* (spawned and not yet exited) in every reachable state.                  *)
C1_AtMostOneLoop == Cardinality(ActiveThreads) <= 1

(* The last two calls are start(), the first of them on a stopped Timer,   *)
(* and the second has returned.                                            *)
TwoStarts ==
    /\ NOps >= 2
    /\ IsOp(NOps - 1, "start") /\ ops[NOps - 1].pre
    /\ IsOp(NOps, "start")
    /\ callerPc = "idle"

(* The last call is a start() on a stopped Timer, and it has returned. *)
OneStart == NOps >= 1 /\ IsOp(NOps, "start") /\ ops[NOps].pre /\ callerPc \in {"idle", "start"}

(* C2 as stated: two start() calls in succession on a stopped Timer spawn  *)
(* exactly one loop, the second call spawns none and writes nothing, and   *)
(* running() is true after either call.                                    *)
C2_TwoStartsOneLoop ==
    /\ OneStart => running /\ ops[NOps].spawned # 0
    /\ TwoStarts => /\ ops[NOps - 1].spawned # 0
                    /\ ops[NOps].spawned = 0
                    /\ ~ops[NOps].pre
                    /\ running

(* C2 amended: the same, provided no thread has assigned _stopped = true   *)
(* since the first call cleared the flag.                                  *)
C2_TwoStartsOneLoopUnlessSelfStopped ==
    /\ (OneStart /\ ~natural) => running /\ ops[NOps].spawned # 0
    /\ (TwoStarts /\ ~ops[NOps].nat /\ ~natural) =>
            /\ ops[NOps - 1].spawned # 0
            /\ ops[NOps].spawned = 0
            /\ ~ops[NOps].pre
            /\ running

C2_Witness ==
    /\ TwoStarts /\ ~ops[NOps].nat /\ ~natural
    /\ ops[NOps].spawned = 0
    /\ Cardinality(Spawned) = 1

(* The only call so far is one start() on a single-shot Timer, and it has  *)
(* returned.                                                               *)
OnlyOneStart ==
    /\ args.single_shot
    /\ NOps = 1 /\ IsOp(1, "start")
    /\ callerPc = "idle"

C3_Fired == calls = 1 /\ invoked[1] = 1 /\ pc[1] = "done" /\ stopped_

(* C3: a fresh single-shot Timer started once, with no other call, invokes *)
(* the callback exactly once after its sleep, then sets stopped; from then *)
(* on stopped() stays true and the callback is not invoked again.          *)
C3_SingleShotFiresOnce ==
    /\ [](OnlyOneStart =>
            /\ calls <= 1
            /\ (calls = 1 => pc[1] \in {"in_function", "set_stopped", "done"} /\ dur[1] = args.delay)
            /\ (pc[1] = "done" => C3_Fired))
    /\ (OnlyOneStart ~> (~OnlyOneStart \/ C3_Fired))

C3_Witness == OnlyOneStart /\ C3_Fired

(* stop() has returned and start() has not been called since. *)
NoStartSinceStop ==
    /\ ~InStart
    /\ \E i \in 1 .. NOps : IsOp(i, "stop") /\ \A j \in (i + 1) .. NOps : ~IsOp(j, "start")

(* C4: for a repeating loop, once stop() has returned and start() is not   *)
(* called again, no invocation begins after a sleep that started after the *)
(* stop: the loop begins at most one further invocation.                   *)
C4_StopBoundsInvocations ==
    NoStartSinceStop =>
        \A t \in Threads : kind[t] = "repeating" =>
            /\ sinceStop[t] <= 1
            /\ (pc[t] = "in_function" => ~sleptAfterStop[t])
            /\ (sinceStop[t] = 1 => pc[t] \in {"in_function", "while", "check1", "set_stopped", "done"})

C4_Witness ==
    /\ NoStartSinceStop
    /\ \E t \in Threads : kind[t] = "repeating" /\ sinceStop[t] = 1 /\ pc[t] = "done"

(* The mode was switched to single shot by the caller and not switched back. *)
SwitchedToSingle ==
    /\ is_single_shot
    /\ \E i \in 1 .. NOps : IsOp(i, "is_single_shot") /\ ops[i].arg = "single"

RepeatingDone == \A t \in Threads : kind[t] = "repeating" => pc[t] = "done"

(* C5: after a running repeating Timer is switched to single shot (and not *)
(* switched back) its loop invokes the callback at most once more, then    *)
(* exits, and stopped() is true as it exits.                               *)
C5_ModeDowngradeEndsLoop ==
    /\ [](SwitchedToSingle =>
            \A t \in Threads : kind[t] = "repeating" =>
                /\ sinceFlip[t] <= 1
                /\ (sinceFlip[t] = 1 => pc[t] \in {"in_function", "while", "set_stopped", "done"}))
    /\ [][\A t \in Threads :
            (kind[t] = "repeating" /\ pc[t] # "done" /\ pc'[t] = "done") => stopped']_vars
    /\ (SwitchedToSingle ~> (~SwitchedToSingle \/ RepeatingDone))

C5_Witness ==
    /\ SwitchedToSingle
    /\ stopped_
    /\ \E t \in Threads : kind[t] = "repeating" /\ pc[t] = "done" /\ sinceFlip[t] = 1

FunctionOps == {i \in 1 .. NOps : IsOp(i, "function")}
LatestFunctionOp == CHOOSE i \in FunctionOps : \A j \in FunctionOps : j <= i

(* The callback the Timer was last given: by the constructor or by the     *)
(* latest completed assignment through function().                         *)
GivenCallback == IF FunctionOps = {} THEN args.function ELSE ops[LatestFunctionOp].arg

(* C6: an invocation that begins after a replacement of the callback has   *)
(* completed invokes the new callback; only an invocation in flight at the *)
(* replacement runs the old one.                                           *)
C6_ReplacedCallbackIsInvoked ==
    \A t \in Threads : (pc[t] = "in_function" /\ ~stale[t]) => cur[t] = GivenCallback

C6_Witness ==
    \E t \in Threads :
        /\ kind[t] = "repeating" /\ pc[t] = "in_function" /\ ~stale[t]
        /\ invoked[t] = 2
        /\ FunctionOps # {}
        /\ cur[t] # args.function

(* A repeating Timer has been started, and neither stop() nor a change of  *)
(* mode has been called.                                                   *)
RepeatingUndisturbed ==
    /\ ~args.single_shot
    /\ \A i \in 1 .. NOps : ops[i].op \in {"start", "function"}
    /\ callerPc \notin {"stop", "is_single_shot"}
    /\ \E i \in 1 .. NOps : IsOp(i, "start") /\ ops[i].spawned # 0

(* C7: a Timer started in repeating mode, with no stop() and no change of  *)
(* mode, stays running, its loop never exits, and the callback is invoked  *)
(* again and again.                                                        *)
C7_RepeatingKeepsFiring ==
    /\ [](RepeatingUndisturbed => running /\ ActiveThreads = {1} /\ Spawned = {1})
    /\ []<>(~RepeatingUndisturbed \/ pc[1] = "in_function")

C7_Witness == RepeatingUndisturbed /\ invoked[1] = MaxCalls /\ pc[1] = "in_function"

(* C8: stop() on a Timer that is already stopped leaves stopped() true and *)
(* changes nothing else: no field, no thread, no invocation.               *)
C8_StopOnStoppedIsNoOp ==
    [][(Len(ops') = Len(ops) + 1 /\ ops'[Len(ops')].op = "stop" /\ stopped_) =>
            /\ stopped'
            /\ UNCHANGED <<is_single_shot, ms_delay, function, pc, kind, cur, dur,
                           calls, invoked>>]_vars

C8_Witness == NOps >= 1 /\ IsOp(NOps, "stop") /\ ops[NOps].pre /\ stopped_ /\ Spawned = {}

NoOp(op) == \A i \in 1 .. NOps : ops[i].op # op

(* C9: construction yields a stopped Timer holding the given callback,     *)
(* delay and mode, with no thread spawned; no invocation occurs before the *)
(* first start().                                                          *)
C9_ConstructedStopped ==
    /\ ms_delay = args.delay
    /\ NoOp("function") => function = args.function
    /\ NoOp("is_single_shot") => is_single_shot = args.single_shot
    /\ NoOp("start") => stopped_ /\ ~running /\ Spawned = {} /\ calls = 0

C9_Witness == NoOp("start") /\ NOps = 2 /\ callerPc = "idle" /\ stopped_ /\ Spawned = {} /\ calls = 0

SharedFields == {"stopped", "is_single_shot", "function"}

(* The caller is inside a member function, about to assign the field. *)
CallerWrites(f) ==
    \/ f = "stopped" /\ callerPc = "stop"
    \/ f = "is_single_shot" /\ callerPc = "is_single_shot"
    \/ f = "function" /\ callerPc = "function"

(* Thread t is about to read the field. *)
ThreadReads(t, f) ==
    \/ f = "stopped" /\ pc[t] \in {"check1", "check2"}
    \/ f = "is_single_shot" /\ pc[t] = "while"
    \/ f = "function" /\ pc[t] = "invoke"

Race(t, f) == CallerWrites(f) /\ ThreadReads(t, f)

(* C10: when the caller is about to write stopped, the mode or the         *)
(* callback and a thread is about to read the same field, nothing orders   *)
(* the two accesses: either can be the next step.                          *)
C10_AccessesUnordered ==
    \A t \in Threads, f \in SharedFields :
        Race(t, f) => (ENABLED CallerStep) /\ (ENABLED ThreadStep(t))

C10_Witness == \E t \in Threads : Race(t, "stopped") /\ pc[t] = "check2"

(* C11: destroying the Timer neither waits for nor stops an active loop:   *)
(* the destruction can happen whenever the caller is between calls, and a  *)
(* loop that is about to touch a field afterwards still does so.           *)
C11_DestructionLeavesLoopsRunning ==
    \A t \in Threads :
        /\ (callerPc = "idle" /\ Active(t)) => ENABLED destroy
        /\ (Destroyed /\ pc[t] \in AccessPcs) => ENABLED UseAfterFree(t)
        /\ uaf[t] => Destroyed

C11_Witness ==
    \E t \in Threads : Destroyed /\ uaf[t] /\ pc[t] = "in_function" /\ ~stopped_

(* C12: a loop that was in its sleep when stop() was called does not go on *)
(* to invoke the callback: from the sleep it reaches its post-sleep check  *)
(* and exits there, whatever the caller does after the stop().             *)
C12_StopInSleepSkipsInvocation ==
    \A t \in Threads : stopInSleep[t] => pc[t] \in {"sleeping", "check2", "done"}

(* The latest start() that found the Timer stopped has returned, and only  *)
(* start() and function() were called after it.                            *)
StartedAndLeftAlone ==
    /\ callerPc = "idle"
    /\ \E i \in 1 .. NOps :
          /\ IsOp(i, "start") /\ ops[i].pre /\ ops[i].spawned # 0
          /\ \A j \in (i + 1) .. NOps :
                /\ ops[j].op \in {"start", "function"}
                /\ IsOp(j, "start") => ~ops[j].pre

(* C13: after a start() on a stopped Timer that is followed by no stop()   *)
(* and no mode change, the callback is invoked at least once: the loops    *)
(* do not all exit with no invocation begun since that start().            *)
C13_StartLeadsToInvocation ==
    (StartedAndLeftAlone /\ ActiveThreads = {}) => sinceStart

(* C14: once stop() has returned and start() is not called again,          *)
(* stopped() stays true, no loop becomes active, a loop exits only at one  *)
(* of its two stop checks or after the tick it was in, and under fairness  *)
(* every loop exits: from some point on none is active.                    *)
C14_StopTerminatesEveryLoop ==
    /\ [](NoStartSinceStop => stopped_)
    /\ [][(NoStartSinceStop /\ NoStartSinceStop') =>
            \A t \in Threads :
                /\ Active(t)' => Active(t)
                /\ (Active(t) /\ ~Active(t)') => pc[t] \in {"check1", "check2", "set_stopped"}]_vars
    /\ (NoStartSinceStop ~> (~NoStartSinceStop \/ ActiveThreads = {}))

C14_Witness ==
    /\ NoStartSinceStop
    /\ stopped_
    /\ ActiveThreads = {}
    /\ \A i \in 1 .. NOps : ~IsOp(i, "is_single_shot")
    /\ \E t \in Threads : kind[t] = "repeating" /\ pc[t] = "done" /\ invoked[t] = 1

(* Thread t moves to the given place of its lambda in this step. *)
Enters(t, place) == pc[t] # place /\ pc'[t] = place

(* Thread t finishes an invocation of the callback in this step. *)
EndsTick(t) == pc[t] = "in_function" /\ pc'[t] # "in_function"

(* C15 as stated: the mode in force when a running loop comes to the end   *)
(* of a tick decides, in both directions, whether the loop goes on: it     *)
(* leaves for its final assignment only when the mode is then SingleShot,  *)
(* and goes on to a further tick only when it is Repeating.                *)
C15_ModeGovernsRunningLoop ==
    [][\A t \in Threads :
          /\ Enters(t, "set_stopped") => is_single_shot
          /\ (Active(t) /\ Enters(t, "check1")) => ~is_single_shot]_vars

(* C15 amended: the mode governs a running loop only if the loop was       *)
(* spawned Repeating: it tests the mode before each tick, goes on while it *)
(* is Repeating and leaves once it is SingleShot.  A loop spawned          *)
(* SingleShot never tests the mode: it leaves after its one invocation     *)
(* even when the mode is Repeating by then.                                *)
C15_ModeGovernsRepeatingLoopOnly ==
    [][\A t \in Threads :
          /\ Enters(t, "set_stopped") => (kind[t] = "single" \/ is_single_shot)
          /\ (kind[t] = "repeating" /\ Enters(t, "check1")) => (pc[t] = "while" /\ ~is_single_shot)
          /\ (kind[t] = "repeating" /\ EndsTick(t)) => pc'[t] = "while"
          /\ (kind[t] = "single" /\ EndsTick(t)) => pc'[t] = "set_stopped"
          /\ kind[t] = "single" => pc'[t] # "while"]_vars

C15_Witness ==
    /\ args.single_shot
    /\ NOps = 2 /\ IsOp(1, "start") /\ IsOp(2, "is_single_shot")
    /\ ~is_single_shot
    /\ kind[1] = "single" /\ pc[1] = "set_stopped" /\ invoked[1] = 1

(* C16: a loop spawned while the mode is SingleShot invokes the callback   *)
(* at most once, and after that invocation assigns stopped = true and      *)
(* exits, whatever the mode is changed to while it runs.                   *)
C16_SingleShotLoopFiresAtMostOnce ==
    /\ [](\A t \in Threads : kind[t] = "single" =>
            /\ invoked[t] <= 1
            /\ (invoked[t] = 1 => pc[t] \in {"in_function", "set_stopped", "done"}))
    /\ [][\A t \in Threads : kind[t] = "single" =>
            /\ EndsTick(t) => pc'[t] = "set_stopped"
            /\ (pc[t] = "set_stopped" /\ pc'[t] # "set_stopped") => (stopped' /\ pc'[t] = "done")
            /\ pc[t] = "done" => pc'[t] = "done"]_vars

C16_Witness ==
    \E t \in Threads :
        /\ kind[t] = "single" /\ pc[t] = "done" /\ invoked[t] = 1
        /\ stopped_
        /\ ~is_single_shot
        /\ \E i \in 1 .. NOps : IsOp(i, "start") /\ ops[i].spawned = t /\ IsOp(i + 1, "is_single_shot")

(* C17: a loop begins an invocation only from a post-sleep check that read *)
(* false, comes to that check only from a completed sleep, sleeps for the  *)
(* configured delay, and begins a sleep only from a pre-sleep check that   *)
(* read false: every invocation has its own full sleep before it.          *)
C17_InvocationFollowsChecksAndSleep ==
    [][\A t \in Threads :
          /\ Enters(t, "in_function") => pc[t] = "invoke"
          /\ Enters(t, "invoke") => (pc[t] = "check2" /\ ~stopped)
          /\ Enters(t, "check2") => pc[t] = "sleeping"
          /\ Enters(t, "sleeping") => (pc[t] = "sleep" /\ dur'[t] = args.delay)
          /\ Enters(t, "sleep") => (pc[t] = "check1" /\ ~stopped)
          /\ pc[t] = "none" => pc'[t] \in {"none", "check1", "while"}]_vars

C17_Witness ==
    \E t \in Threads :
        /\ pc[t] = "in_function" /\ invoked[t] = 2
        /\ args.delay = MaxDelay /\ dur[t] = args.delay

(* C18: whenever stopped is false, some loop is active or a start() call   *)
(* has cleared the flag and not yet spawned its loop.                      *)
C18_RunningMeansLoopOrSpawning ==
    ~stopped => (ActiveThreads # {} \/ callerPc = "on_run")

C18_Witness ==
    /\ ~stopped
    /\ callerPc = "on_run"
    /\ ActiveThreads = {}
    /\ \E t \in Threads : pc[t] = "done" /\ invoked[t] = 1

====
